---- MODULE Spec2Model ----
(***************************************************************************)
(* Model of apps/mcp-server-sample/src/index.ts: the TextSummarizer core    *)
(* (summarize, splitIntoSentences, calculateWordFrequency, scoreSentence)   *)
(* and the CallTool request handler of TextProcessingServer.                *)
(*                                                                          *)
(* A JavaScript string is a sequence of one-character strings.  A score is  *)
(* kept as the exact integer score * 2000, so that comparisons of scores    *)
(* are comparisons of integers.                                             *)
(***************************************************************************)
EXTENDS Integers, Sequences, FiniteSets, TLC

VARIABLES pc, request, text, maxSentences, sentences, wordFrequency,
          sentenceScores, topSentences, summary, response, calls

vars == <<pc, request, text, maxSentences, sentences, wordFrequency,
          sentenceScores, topSentences, summary, response, calls>>

(***************************************************************************)
(* Bounds of the model.                                                     *)
(***************************************************************************)
\* longest text of the exhaustive enumeration
MaxLen == 5
\* direct calls of summarize use maxSentences in -NegArgs .. MaxM
NegArgs == 1
MaxM == 3
\* numeric max_sentences of a tool call range over -ArgBelow .. MaxArg
ArgBelow == 2
MaxArg == 12

(***************************************************************************)
(* Characters.                                                              *)
(***************************************************************************)
Alphabet == {"a", "A", ".", " ", "|"}

\* [.!?] of the sentence regex
Terminators == {".", "!", "?"}

\* [.,!?;:()\[\]{}'"] of the word regex
Punctuation == {".", ",", "!", "?", ";", ":", "(", ")", "[", "]", "{", "}", "'", "\""}

\* \s of the regexes and of String.prototype.trim
IsSpace(c) == c \in {" ", "\t", "\n"}

\* String.prototype.toLowerCase on one character
LowerChar(c) ==
  CASE c = "A" -> "a" [] c = "B" -> "b" [] c = "C" -> "c" [] c = "D" -> "d"
    [] c = "E" -> "e" [] c = "H" -> "h" [] c = "T" -> "t"
    [] OTHER -> c

ToLowerCase(s) == [i \in 1..Len(s) |-> LowerChar(s[i])]

(***************************************************************************)
(* splitIntoSentences                                                       *)
(***************************************************************************)
\* first position >= i of s that holds no whitespace (Len(s)+1 when none)
RECURSIVE SkipSpaces(_, _)
SkipSpaces(s, i) ==
  IF i <= Len(s) /\ IsSpace(s[i]) THEN SkipSpaces(s, i + 1) ELSE i

\* s.replace(/([.!?])\s+/g, '$1|') from position i on
RECURSIVE ReplaceFrom(_, _)
ReplaceFrom(s, i) ==
  IF i > Len(s) THEN <<>>
  ELSE IF s[i] \in Terminators /\ i < Len(s) /\ IsSpace(s[i + 1])
       THEN <<s[i], "|">> \o ReplaceFrom(s, SkipSpaces(s, i + 1))
       ELSE <<s[i]>> \o ReplaceFrom(s, i + 1)

ReplaceBoundaries(s) == ReplaceFrom(s, 1)

\* s.split(c) for a one-character separator: "" gives [""]
RECURSIVE SplitChar(_, _)
SplitChar(s, c) ==
  IF \A i \in 1..Len(s) : s[i] # c THEN <<s>>
  ELSE LET k == CHOOSE i \in 1..Len(s) :
                  s[i] = c /\ \A j \in 1..(i - 1) : s[j] # c
       IN <<SubSeq(s, 1, k - 1)>> \o SplitChar(SubSeq(s, k + 1, Len(s)), c)

\* String.prototype.trim
Trim(s) ==
  LET keep == {i \in 1..Len(s) : ~IsSpace(s[i])}
  IN IF keep = {} THEN <<>>
     ELSE SubSeq(s, CHOOSE i \in keep : \A j \in keep : i <= j,
                    CHOOSE i \in keep : \A j \in keep : i >= j)

NonBlank(sentence) == Len(Trim(sentence)) > 0

SplitIntoSentences(t) ==
  SelectSeq(SplitChar(ReplaceBoundaries(t), "|"), NonBlank)

(***************************************************************************)
(* calculateWordFrequency                                                   *)
(***************************************************************************)
NotPunctuation(c) == c \notin Punctuation

\* s.replace(/[.,!?;:()\[\]{}'"]/g, '')
StripPunctuation(s) == SelectSeq(s, NotPunctuation)

\* s.split(/\s+/) from position i on, cur being the piece read so far:
\* a leading or trailing whitespace run gives an empty first or last piece
RECURSIVE SplitSpacesFrom(_, _, _)
SplitSpacesFrom(s, i, cur) ==
  IF i > Len(s) THEN <<cur>>
  ELSE IF IsSpace(s[i])
       THEN <<cur>> \o SplitSpacesFrom(s, SkipSpaces(s, i), <<>>)
       ELSE SplitSpacesFrom(s, i + 1, Append(cur, s[i]))

SplitSpaces(s) == SplitSpacesFrom(s, 1, <<>>)

NonEmpty(word) == Len(word) > 0

\* the words without the lower-casing
WordsCaseSensitive(s) ==
  SelectSeq(SplitSpaces(StripPunctuation(s)), NonEmpty)

\* the words of a text or of a sentence (lines 66-69 and 95-98)
Words(s) == SelectSeq(SplitSpaces(StripPunctuation(ToLowerCase(s))), NonEmpty)

\* frequency.get(word) || 0
Get(frequency, word) ==
  IF word \in DOMAIN frequency THEN frequency[word] ELSE 0

\* the for loop of lines 73-76 from word i on
RECURSIVE CountFrom(_, _, _)
CountFrom(words, i, frequency) ==
  IF i > Len(words) THEN frequency
  ELSE LET word == words[i]
           count == Get(frequency, word)
       IN CountFrom(words, i + 1,
            [w \in (DOMAIN frequency) \cup {word} |->
               IF w = word THEN count + 1 ELSE frequency[w]])

\* new Map(): no key
EmptyMap == [w \in {} |-> 0]

CalculateWordFrequency(t) == CountFrom(Words(t), 1, EmptyMap)

(***************************************************************************)
(* scoreSentence: the result is score * 2000                                *)
(***************************************************************************)
Min(a, b) == IF a <= b THEN a ELSE b
Max(a, b) == IF a >= b THEN a ELSE b

RECURSIVE SumFrequency(_, _, _)
SumFrequency(words, i, frequency) ==
  IF i > Len(words) THEN 0
  ELSE Get(frequency, words[i]) + SumFrequency(words, i + 1, frequency)

FrequencyScore(sentence, frequency) ==
  SumFrequency(Words(sentence), 1, frequency)

\* lengthScore * 20 = Math.min(words.length, 20)
LengthScore20(sentence) == Min(Len(Words(sentence)), 20)

\* a position score that does not boost the last sentence
PositionScoreFirstOnly(index, totalSentences) ==
  IF index = 0 THEN 15
  ELSE IF 10 * index < 2 * totalSentences \/ 10 * index > 8 * totalSentences
       THEN 12
       ELSE 10

\* a position score whose 20% and 80% comparisons are not strict
PositionScoreInclusive(index, totalSentences) ==
  IF index = 0 \/ index = totalSentences - 1 THEN 15
  ELSE IF 10 * index <= 2 * totalSentences \/ 10 * index >= 8 * totalSentences
       THEN 12
       ELSE 10

\* positionScore * 10; index < total * 0.2 is 10 * index < 2 * total, and
\* index > total * 0.8 is 10 * index > 8 * total
PositionScore10(index, totalSentences) ==
  IF index = 0 \/ index = totalSentences - 1 THEN 15
  ELSE IF 10 * index < 2 * totalSentences \/ 10 * index > 8 * totalSentences
       THEN 12
       ELSE 10

\* (frequencyScore * 0.5 + lengthScore * 0.3) * positionScore, times 2000
ScoreSentence(sentence, frequency, index, totalSentences) ==
  (100 * FrequencyScore(sentence, frequency) + 3 * LengthScore20(sentence))
    * PositionScore10(index, totalSentences)

(***************************************************************************)
(* summarize                                                                *)
(***************************************************************************)
\* sentences.map((sentence, index) => ({ sentence, score, index }))
SentenceScores(sents, frequency) ==
  [i \in 1..Len(sents) |->
     [sentence |-> sents[i],
      score    |-> ScoreSentence(sents[i], frequency, i - 1, Len(sents)),
      index    |-> i - 1]]

\* a sort that puts an item before the items of equal score already placed
RECURSIVE InsertByScoreTiesFirst(_, _)
InsertByScoreTiesFirst(sorted, item) ==
  IF sorted = <<>> THEN <<item>>
  ELSE IF Head(sorted).score > item.score
       THEN <<Head(sorted)>> \o InsertByScoreTiesFirst(Tail(sorted), item)
       ELSE <<item>> \o sorted

\* Array.prototype.sort is stable: an item goes behind every item already
\* placed that the comparator does not put after it
RECURSIVE InsertByScore(_, _)
InsertByScore(sorted, item) ==
  IF sorted = <<>> THEN <<item>>
  ELSE IF Head(sorted).score >= item.score
       THEN <<Head(sorted)>> \o InsertByScore(Tail(sorted), item)
       ELSE <<item>> \o sorted

\* .sort((a, b) => b.score - a.score) of the first n items
RECURSIVE SortByScoreTo(_, _)
SortByScoreTo(items, n) ==
  IF n = 0 THEN <<>>
  ELSE InsertByScore(SortByScoreTo(items, n - 1), items[n])

SortByScore(items) == SortByScoreTo(items, Len(items))

RECURSIVE InsertByIndex(_, _)
InsertByIndex(sorted, item) ==
  IF sorted = <<>> THEN <<item>>
  ELSE IF Head(sorted).index <= item.index
       THEN <<Head(sorted)>> \o InsertByIndex(Tail(sorted), item)
       ELSE <<item>> \o sorted

\* .sort((a, b) => a.index - b.index) of the first n items
RECURSIVE SortByIndexTo(_, _)
SortByIndexTo(items, n) ==
  IF n = 0 THEN <<>>
  ELSE InsertByIndex(SortByIndexTo(items, n - 1), items[n])

SortByIndex(items) == SortByIndexTo(items, Len(items))

\* .slice(0, end): a negative end counts from the end of the array
Slice(items, end) ==
  LET last == IF end < 0 THEN Max(Len(items) + end, 0)
                         ELSE Min(end, Len(items))
  IN SubSeq(items, 1, last)

\* .join(' ') of the strings strs[i..]
RECURSIVE JoinFrom(_, _)
JoinFrom(strs, i) ==
  IF i > Len(strs) THEN <<>>
  ELSE IF i = Len(strs) THEN strs[i]
       ELSE strs[i] \o <<" ">> \o JoinFrom(strs, i + 1)

Join(strs) == JoinFrom(strs, 1)

\* line 28: the text is returned as it is
ReturnsText(sents, max) == Len(sents) <= max

\* line 33; the map is not built when line 29 returns
FrequencyOf(t, max) ==
  IF ReturnsText(SplitIntoSentences(t), max) THEN EmptyMap
  ELSE CalculateWordFrequency(t)

\* lines 36-39
ScoresOf(t, max) ==
  LET sents == SplitIntoSentences(t)
  IN IF ReturnsText(sents, max) THEN <<>>
     ELSE SentenceScores(sents, CalculateWordFrequency(t))

\* the selection without the second sort of line 45
TopSentencesByScore(scores, max) == Slice(SortByScore(scores), max)

\* lines 42-45: the scored sentences kept, in their original order
TopSentences(scores, max) == SortByIndex(Slice(SortByScore(scores), max))

TopOf(t, max) == TopSentences(ScoresOf(t, max), max)

\* a summarize whose line 29 joins the sentences again
SummarizeRejoined(t, max) ==
  LET top == TopOf(t, max)
  IN IF ReturnsText(SplitIntoSentences(t), max)
     THEN Join(SplitIntoSentences(t))
     ELSE Join([i \in 1..Len(top) |-> top[i].sentence])

\* the result of summarize(t, max)
Summarize(t, max) ==
  IF ReturnsText(SplitIntoSentences(t), max) THEN t
  ELSE LET top == TopOf(t, max)
       IN Join([i \in 1..Len(top) |-> top[i].sentence])

(***************************************************************************)
(* Texts: every text of at most MaxLen characters of Alphabet, and some     *)
(* longer ones.                                                             *)
(***************************************************************************)
\* the text "A. B. C. D. E."
FiveLetters ==
  <<"A", ".", " ", "B", ".", " ", "C", ".", " ", "D", ".", " ", "E", ".">>

\* the text "Hello world."
HelloWorld ==
  <<"H", "e", "l", "l", "o", " ", "w", "o", "r", "l", "d", ".">>

\* the text "Cat cat, CAT"
Cats ==
  <<"C", "a", "t", " ", "c", "a", "t", ",", " ", "C", "A", "T">>

\* the text ". ! ?": three sentences without a word
OnlyMarks ==
  <<".", " ", "!", " ", "?">>

\* the text "a?! b a.<tab><newline>b"
MixedSpace ==
  <<"a", "?", "!", " ", "b", " ", "a", ".", "\t", "\n", "b">>

\* ten sentences "a."
TenSentences ==
  <<"a", ".", " ", "a", ".", " ", "a", ".", " ", "a", ".", " ", "a", ".",
    " ", "a", ".", " ", "a", ".", " ", "a", ".", " ", "a", ".", " ", "a",
    ".">>

\* eleven sentences, the fourth and the eighth "a b.", the others "a."
ElevenSentences ==
  <<"a", ".", " ", "a", ".", " ", "a", ".", " ", "a", " ", "b", ".", " ",
    "a", ".", " ", "a", ".", " ", "a", ".", " ", "a", " ", "b", ".", " ",
    "a", ".", " ", "a", ".", " ", "a", ".">>

SampleTexts ==
  {FiveLetters, HelloWorld, Cats, OnlyMarks,
   MixedSpace, TenSentences, ElevenSentences}

ShortTexts == UNION {[1..n -> Alphabet] : n \in 0..MaxLen}

Texts == ShortTexts \cup SampleTexts

(***************************************************************************)
(* Requests of the CallTool handler.  A request names a tool and carries    *)
(* arguments: no object, or an object whose text and max_sentences each are *)
(* absent, of the expected type, or of another type.                        *)
(***************************************************************************)
NoRequest ==
  [name |-> "", args |-> "undefined", textType |-> "undefined", textVal |-> <<>>,
   maxType |-> "undefined", maxVal |-> 0]

ToolNames == {"summarize_text", "count_words"}

MaxSentencesArgs == (0 - ArgBelow)..MaxArg

Requests ==
  {[name |-> n, args |-> "object", textType |-> "string", textVal |-> t,
    maxType |-> "number", maxVal |-> m] :
      n \in ToolNames, t \in SampleTexts, m \in MaxSentencesArgs}
  \cup
  {[name |-> n, args |-> "object", textType |-> "string", textVal |-> t,
    maxType |-> mt, maxVal |-> 0] :
      n \in ToolNames, t \in SampleTexts, mt \in {"undefined", "string"}}
  \cup
  {[name |-> n, args |-> "object", textType |-> tt, textVal |-> <<>>,
    maxType |-> mt, maxVal |-> 3] :
      n \in ToolNames, tt \in {"undefined", "number"},
      mt \in {"undefined", "number"}}
  \cup
  {[name |-> n, args |-> a, textType |-> "undefined", textVal |-> <<>>,
    maxType |-> "undefined", maxVal |-> 0] :
      n \in ToolNames, a \in {"undefined", "null"}}

NoResponse == [kind |-> "none", code |-> "", content |-> <<>>, isError |-> FALSE]

McpError(code) ==
  [kind |-> "McpError", code |-> code, content |-> <<>>, isError |-> FALSE]

Result(content) ==
  [kind |-> "result", code |-> "", content |-> content, isError |-> FALSE]

\* a clamp without the upper limit
ClampBelowOnly(req) ==
  IF req.maxType = "number" THEN Max(1, req.maxVal) ELSE 3

\* lines 200-202
ClampMaxSentences(req) ==
  IF req.maxType = "number" THEN Min(Max(1, req.maxVal), 10) ELSE 3

\* typeof args: typeof null is 'object'
TypeOfArgs(req) == IF req.args = "null" THEN "object" ELSE req.args

\* a check of the arguments object that forgets the type of text
InvalidArgumentsObjectOnly(req) ==
  TypeOfArgs(req) # "object" \/ req.args = "null"

\* line 193
InvalidArguments(req) ==
  TypeOfArgs(req) # "object" \/ req.args = "null" \/ req.textType # "string"

(***************************************************************************)
(* The state machine: a call is either a direct call summarize(text,        *)
(* maxSentences) or a CallTool request; pc is "ready" before the call and   *)
(* "done" after it.                                                         *)
(***************************************************************************)
Init ==
  /\ pc = "ready"
  /\ \/ /\ request = NoRequest
        /\ text \in Texts
        /\ maxSentences \in (0 - NegArgs)..MaxM
     \/ /\ request \in Requests
        /\ text = <<>>
        /\ maxSentences = 0
  /\ sentences = <<>>
  /\ wordFrequency = EmptyMap
  /\ sentenceScores = <<>>
  /\ topSentences = <<>>
  /\ summary = <<>>
  /\ response = NoResponse
  /\ calls = 0

\* summarize(text, maxSentences), lines 24-49
SummarizeCall ==
  /\ pc = "ready"
  /\ request = NoRequest
  /\ sentences' = SplitIntoSentences(text)
  /\ wordFrequency' = FrequencyOf(text, maxSentences)
  /\ sentenceScores' = ScoresOf(text, maxSentences)
  /\ topSentences' = TopOf(text, maxSentences)
  /\ summary' = Summarize(text, maxSentences)
  /\ calls' = calls + 1
  /\ pc' = "done"
  /\ UNCHANGED <<request, text, maxSentences, response>>

\* lines 181-186
CallToolUnknown ==
  /\ pc = "ready"
  /\ request # NoRequest
  /\ request.name # "summarize_text"
  /\ response' = McpError("MethodNotFound")
  /\ pc' = "done"
  /\ UNCHANGED <<request, text, maxSentences, sentences, wordFrequency,
                 sentenceScores, topSentences, summary, calls>>

\* lines 193-198
CallToolInvalid ==
  /\ pc = "ready"
  /\ request # NoRequest
  /\ request.name = "summarize_text"
  /\ InvalidArguments(request)
  /\ response' = McpError("InvalidParams")
  /\ pc' = "done"
  /\ UNCHANGED <<request, text, maxSentences, sentences, wordFrequency,
                 sentenceScores, topSentences, summary, calls>>

\* lines 200-214
CallToolSummarize ==
  /\ pc = "ready"
  /\ request # NoRequest
  /\ request.name = "summarize_text"
  /\ ~InvalidArguments(request)
  /\ text' = request.textVal
  /\ maxSentences' = ClampMaxSentences(request)
  /\ sentences' = SplitIntoSentences(text')
  /\ wordFrequency' = FrequencyOf(text', maxSentences')
  /\ sentenceScores' = ScoresOf(text', maxSentences')
  /\ topSentences' = TopOf(text', maxSentences')
  /\ summary' = Summarize(text', maxSentences')
  /\ calls' = calls + 1
  /\ response' = Result(summary')
  /\ pc' = "done"
  /\ UNCHANGED request

Next == SummarizeCall \/ CallToolUnknown \/ CallToolInvalid \/ CallToolSummarize

Spec == Init /\ [][Next]_vars

(***************************************************************************)
(* Properties.                                                              *)
(***************************************************************************)
\* summarize has run (directly or from the handler)
Summarized == pc = "done" /\ calls = 1

\* line 28 did not return: the sentences were scored and selected
Selected == Summarized /\ ~ReturnsText(sentences, maxSentences)

SelectedIndexes == {topSentences[k].index : k \in 1..Len(topSentences)}

TopTexts == [k \in 1..Len(topSentences) |-> topSentences[k].sentence]

\* C1: when the text has at most maxSentences sentences, summarize returns
\* the text itself, character for character, the empty text included.
C1_ReturnsInputText ==
  (Summarized /\ Len(sentences) <= maxSentences) => summary = text

\* a text of at most maxSentences sentences that joining its sentences
\* would not give back
C1_Witness ==
  /\ Summarized
  /\ Len(sentences) <= maxSentences
  /\ Len(sentences) >= 2
  /\ Join(sentences) # text
  /\ summary = text

\* what C2 says of the selection: maxSentences sentences of the text, in
\* strictly increasing original index, joined by one space
ExactlyMaxSentences ==
  /\ Len(topSentences) = maxSentences
  /\ \A k \in 1..Len(topSentences) :
       /\ topSentences[k].index \in 0..(Len(sentences) - 1)
       /\ topSentences[k].sentence = sentences[topSentences[k].index + 1]
  /\ \A k \in 1..(Len(topSentences) - 1) :
       topSentences[k].index < topSentences[k + 1].index
  /\ summary = Join(TopTexts)
  /\ (maxSentences = 0 => summary = <<>>)

\* C2 as stated: for every integer maxSentences below the number of
\* sentences, summarize returns exactly maxSentences sentences.
C2_AnyInteger == Selected => ExactlyMaxSentences

\* C2 as amended: for every maxSentences >= 0 below the number of sentences,
\* summarize returns exactly maxSentences of the sentences, each once, in
\* strictly increasing original index, joined by one space; maxSentences = 0
\* gives the empty string.
C2_NonNegative == (Selected /\ maxSentences >= 0) => ExactlyMaxSentences

\* a selection that is not the first maxSentences sentences and whose score
\* order is not the original order
C2_Witness ==
  /\ Selected
  /\ maxSentences >= 2
  /\ SelectedIndexes # 0..(maxSentences - 1)
  /\ TopSentencesByScore(sentenceScores, maxSentences) # topSentences
  /\ ExactlyMaxSentences

\* sentence i goes before sentence j in the order "score descending, then
\* original index ascending" (i, j are original indexes)
Before(i, j) ==
  \/ sentenceScores[i + 1].score > sentenceScores[j + 1].score
  \/ /\ sentenceScores[i + 1].score = sentenceScores[j + 1].score
     /\ i < j

\* C3: with 1 <= maxSentences < number of sentences, the selected sentences
\* are the first maxSentences in the order "score descending, then original
\* index ascending": every selected one goes before every one left out.
C3_TopByScoreThenIndex ==
  (Selected /\ maxSentences >= 1) =>
    /\ Cardinality(SelectedIndexes) = maxSentences
    /\ \A i \in SelectedIndexes :
         \A j \in (0..(Len(sentences) - 1)) \ SelectedIndexes : Before(i, j)

\* a selected and a left-out sentence of equal score, and a left-out
\* sentence of smaller index than a selected one
C3_Witness ==
  /\ Selected
  /\ maxSentences >= 1
  /\ \E i \in SelectedIndexes :
       \E j \in (0..(Len(sentences) - 1)) \ SelectedIndexes :
         sentenceScores[i + 1].score = sentenceScores[j + 1].score
  /\ \E i \in SelectedIndexes :
       \E j \in (0..(Len(sentences) - 1)) \ SelectedIndexes : j < i

\* the sentences all have the same frequencyScore and the same lengthScore
AllTie ==
  \A i, j \in 1..Len(sentences) :
    /\ FrequencyScore(sentences[i], wordFrequency)
         = FrequencyScore(sentences[j], wordFrequency)
    /\ LengthScore20(sentences[i]) = LengthScore20(sentences[j])

FirstAndLast ==
  /\ SelectedIndexes = {0, Len(sentences) - 1}
  /\ summary = sentences[1] \o <<" ">> \o sentences[Len(sentences)]

\* C4 as stated: more than two sentences that all tie on frequencyScore and
\* lengthScore, maxSentences = 2: the first and the last sentence are
\* selected and returned in this order, joined by one space.
C4_AnyTie ==
  (Selected /\ maxSentences = 2 /\ Len(sentences) > 2 /\ AllTie)
    => FirstAndLast

\* C4 as amended: the same, for sentences that hold at least one word (their
\* common lengthScore is not 0, so the position boost changes the score).
C4_TieWithWords ==
  (Selected /\ maxSentences = 2 /\ Len(sentences) > 2 /\ AllTie
     /\ LengthScore20(sentences[1]) > 0)
    => FirstAndLast

\* "A. B. C. D. E." with maxSentences = 2 gives "A. E."
C4_Witness ==
  /\ Selected
  /\ text = FiveLetters
  /\ maxSentences = 2
  /\ AllTie
  /\ summary = <<"A", ".", " ", "E", ".">>

\* the whitespace-delimited tokens of the text, each lower-cased and with
\* its punctuation removed, the empty ones left out
NormalizedTokens(t) ==
  LET raw == SplitSpaces(t)
  IN SelectSeq([i \in 1..Len(raw) |-> StripPunctuation(ToLowerCase(raw[i]))],
               NonEmpty)

RECURSIVE SumCounts(_)
SumCounts(frequency) ==
  IF DOMAIN frequency = {} THEN 0
  ELSE LET w == CHOOSE x \in DOMAIN frequency : TRUE
       IN frequency[w]
            + SumCounts([x \in (DOMAIN frequency) \ {w} |-> frequency[x]])

\* C5: the frequency map gives each word the number of whitespace-delimited
\* tokens of the text equal to it after lower-casing and removal of the
\* punctuation; no key is empty; the counts sum to the number of tokens left.
C5_FrequencyMap ==
  Selected =>
    LET tokens == NormalizedTokens(text)
    IN /\ DOMAIN wordFrequency = {tokens[i] : i \in 1..Len(tokens)}
       /\ \A w \in DOMAIN wordFrequency :
            wordFrequency[w] = Cardinality({i \in 1..Len(tokens) : tokens[i] = w})
       /\ <<>> \notin DOMAIN wordFrequency
       /\ SumCounts(wordFrequency) = Len(tokens)

\* "Cat cat, CAT" counts three times for the key "cat"
C5_Witness ==
  /\ Selected
  /\ text = Cats
  /\ DOMAIN wordFrequency = {<<"c", "a", "t">>}
  /\ wordFrequency[<<"c", "a", "t">>] = 3

\* summarize has run from the CallTool handler
ToolSummarized == Summarized /\ request # NoRequest

\* C6: the maxSentences the handler passes to summarize is in 1..10: a
\* number below 1 becomes 1, above 10 becomes 10, a number of 1..10 is
\* passed as it is, and an absent or non-numeric max_sentences gives 3.
C6_ClampedMaxSentences ==
  ToolSummarized =>
    /\ maxSentences \in 1..10
    /\ (request.maxType = "number" /\ request.maxVal < 1) => maxSentences = 1
    /\ (request.maxType = "number" /\ request.maxVal > 10) => maxSentences = 10
    /\ (request.maxType = "number" /\ request.maxVal \in 1..10)
         => maxSentences = request.maxVal
    /\ request.maxType # "number" => maxSentences = 3

\* a max_sentences above 10 on a text of more than 10 sentences: ten of them
\* are returned
C6_Witness ==
  /\ ToolSummarized
  /\ request.maxType = "number"
  /\ request.maxVal > 10
  /\ Len(sentences) > 10
  /\ maxSentences = 10
  /\ Len(topSentences) = 10

\* C7: a call of another tool is rejected with MethodNotFound; a call of
\* summarize_text without arguments, or whose text is missing or no string,
\* is rejected with InvalidParams; neither invokes summarize nor returns a
\* summary; every other call invokes summarize exactly once.
C7_Rejections ==
  (pc = "done" /\ request # NoRequest) =>
    IF request.name # "summarize_text"
    THEN /\ response = McpError("MethodNotFound")
         /\ calls = 0
         /\ summary = <<>>
    ELSE IF request.args \in {"undefined", "null"} \/ request.textType # "string"
         THEN /\ response = McpError("InvalidParams")
              /\ calls = 0
              /\ summary = <<>>
         ELSE /\ calls = 1
              /\ response = Result(summary)
              /\ summary = Summarize(request.textVal, maxSentences)

\* a summarize_text call whose text is a number, rejected
C7_Witness ==
  /\ pc = "done"
  /\ request.name = "summarize_text"
  /\ request.args = "object"
  /\ request.textType = "number"
  /\ response.kind = "McpError"
  /\ response.code = "InvalidParams"
  /\ calls = 0

\* the position score (times 10) C8 gives sentence i of n
ClaimedPosition10(i, n) ==
  IF i \in {0, n - 1} THEN 15
  ELSE IF 5 * i < n \/ 5 * i > 4 * n THEN 12
  ELSE 10

\* C8: the scorer multiplies by 1.5 for the first and the last sentence,
\* else by 1.2 for an index i with i < 0.2 n or i > 0.8 n (both strict), else
\* by 1.0.
C8_PositionScore ==
  Selected =>
    \A k \in 1..Len(sentences) :
      /\ PositionScore10(k - 1, Len(sentences))
           = ClaimedPosition10(k - 1, Len(sentences))
      /\ sentenceScores[k].score =
           (100 * FrequencyScore(sentences[k], wordFrequency)
              + 3 * LengthScore20(sentences[k]))
             * ClaimedPosition10(k - 1, Len(sentences))

\* ten sentences of one score before the position factor: index 1 has 1.2,
\* index 2 = 0.2 n and index 8 = 0.8 n have 1.0, index 9 has 1.5
C8_Witness ==
  /\ Selected
  /\ text = TenSentences
  /\ sentenceScores[3].score > 0
  /\ 10 * sentenceScores[2].score = 12 * sentenceScores[3].score
  /\ sentenceScores[9].score = sentenceScores[3].score
  /\ 10 * sentenceScores[10].score = 15 * sentenceScores[3].score

NoTerminator(t) == \A i \in 1..Len(t) : t[i] \notin Terminators

\* C9: a text without . ! ? (and with a character that is no whitespace, so
\* that line 59 keeps a segment) is split into exactly one segment, the
\* whole text; stated for the calls with maxSentences >= 1.
C9_OneSegment ==
  (Summarized /\ maxSentences >= 1 /\ NoTerminator(text) /\ NonBlank(text))
    => sentences = <<text>>

\* C10: every word of every sentence is a key of the frequency map of the
\* whole text, so that frequencyScore is at least the number of words;
\* stated for the calls with maxSentences >= 1.
C10_WordsAreKeys ==
  (Selected /\ maxSentences >= 1) =>
    \A k \in 1..Len(sentences) :
      LET words == Words(sentences[k])
      IN /\ \A i \in 1..Len(words) : words[i] \in DOMAIN wordFrequency
         /\ FrequencyScore(sentences[k], wordFrequency) >= Len(words)

====
